---- MODULE Spec2Model ----
(***************************************************************************)
(* Model of the CBClient template generator (src/Python.py): the two       *)
(* identifier sanitizers slugify_modid and safe_pkg, Meta.normalized, and  *)
(* generate with write_file over a small file system.                      *)
(*                                                                         *)
(* A Python str is a sequence of one-character strings; a Path is a        *)
(* sequence of components, each component a str.                           *)
(***************************************************************************)
EXTENDS Integers, Sequences, FiniteSets, TLC

VARIABLES
    s,       \* argument of slugify_modid / safe_pkg
    r,       \* its result
    rr,      \* the result of applying the function to r again
    fpc,     \* position of the sanitizer driver: "in", "once", "twice"
    self,    \* the raw Meta that normalized() is called on
    norm,    \* the Meta returned by normalized(), NoMeta before the call
    dirs,    \* file system: the set of directories (Paths)
    files,   \* file system: Path -> content of the regular file there
    clock,   \* wall clock, seconds since midnight
    ticks,   \* seconds elapsed since the initial state
    pc,      \* position of generate: "idle", "writing", or "raised" once an exception left it
    meta,    \* generate: the normalized Meta of the current run
    root,    \* generate: the target directory of the current run
    idx,     \* generate: number of the next write_file call, 1..15, 16 before log("Done.")
    lines,   \* lines passed to log by the current run
    entries, \* generate: the write_file calls of the current run, bound to root and meta
    cur,     \* what the current run observed when it started
    written, \* Paths written by the current run, in order
    hist     \* finished runs, in order

fvars == <<s, r, rr, fpc>>
mvars == <<self, norm>>
gvars == <<dirs, files, clock, ticks, pc, meta, root, idx, entries, lines, cur, written, hist>>
vars == <<s, r, rr, fpc, self, norm, dirs, files, clock, ticks, pc, meta, root, idx, entries,
          lines, cur, written, hist>>

(***************************************************************************)
(* Bounds                                                                  *)
(***************************************************************************)
MaxTail == 2       \* free characters after the padding of a mod_id input
MaxPkgLen == 4     \* length of a safe_pkg input
MaxText == 1       \* length of a raw client_name / description
MaxAuthors == 2    \* number of raw authors
MaxRuns == 2       \* calls of generate
MaxTicks == 1      \* seconds that pass

(***************************************************************************)
(* Characters                                                              *)
(***************************************************************************)
LowerLetters == {"a", "b", "c", "d", "e", "f", "g", "h", "i", "j", "k", "l", "m",
                 "n", "o", "p", "q", "r", "s", "t", "u", "v", "w", "x", "y", "z"}
UpperLetters == {"A", "B", "C", "D", "E", "F", "G", "H", "I", "J", "K", "L", "M",
                 "N", "O", "P", "Q", "R", "S", "T", "U", "V", "W", "X", "Y", "Z"}
Digits == {"0", "1", "2", "3", "4", "5", "6", "7", "8", "9"}
Whitespace == {" ", "\t", "\n"}
Seps == {"_", "-"}
SlugChars == LowerLetters \cup Digits \cup Seps
PkgChars == LowerLetters \cup Digits \cup {"_", "."}
WordChars == LowerLetters \cup UpperLetters \cup Digits \cup {"_"}
ProjChars == WordChars \cup {"-", ".", " "}

LowerOf == [c \in UpperLetters |->
    CASE c = "A" -> "a" [] c = "B" -> "b" [] c = "C" -> "c" [] c = "D" -> "d"
      [] c = "E" -> "e" [] c = "F" -> "f" [] c = "G" -> "g" [] c = "H" -> "h"
      [] c = "I" -> "i" [] c = "J" -> "j" [] c = "K" -> "k" [] c = "L" -> "l"
      [] c = "M" -> "m" [] c = "N" -> "n" [] c = "O" -> "o" [] c = "P" -> "p"
      [] c = "Q" -> "q" [] c = "R" -> "r" [] c = "S" -> "s" [] c = "T" -> "t"
      [] c = "U" -> "u" [] c = "V" -> "v" [] c = "W" -> "w" [] c = "X" -> "x"
      [] c = "Y" -> "y" [] c = "Z" -> "z"]

isalpha(c) == c \in LowerLetters \cup UpperLetters

(***************************************************************************)
(* str methods and the re.sub calls the code uses                          *)
(***************************************************************************)
lower(x) == [i \in 1..Len(x) |-> IF x[i] \in UpperLetters THEN LowerOf[x[i]] ELSE x[i]]

replace(x, old, new) == [i \in 1..Len(x) |-> IF x[i] = old THEN new ELSE x[i]]

\* re.sub(r'[^...]', '', x): delete every character outside keep
sub_delete(x, keep) == SelectSeq(x, LAMBDA c : c \in keep)

\* re.sub(r'[set]+', <first character of the run>, x)
sub_runs(x, set) ==
    LET first(i) == ~(x[i] \in set /\ i > 1 /\ x[i-1] \in set)
        starts == SelectSeq([i \in 1..Len(x) |-> i], first)
    IN  [k \in 1..Len(starts) |-> x[starts[k]]]

lstrip(x, set) ==
    IF \A i \in 1..Len(x) : x[i] \in set THEN <<>>
    ELSE SubSeq(x, CHOOSE i \in 1..Len(x) : x[i] \notin set /\ \A j \in 1..(i-1) : x[j] \in set, Len(x))

rstrip(x, set) ==
    IF \A i \in 1..Len(x) : x[i] \in set THEN <<>>
    ELSE SubSeq(x, 1, CHOOSE i \in 1..Len(x) : x[i] \notin set /\ \A j \in (i+1)..Len(x) : x[j] \in set)

strip(x, set) == rstrip(lstrip(x, set), set)

\* x[:n]
slice_to(x, n) == IF Len(x) <= n THEN x ELSE SubSeq(x, 1, n)

\* x.split(sep), sep a single character
RECURSIVE split(_, _)
split(x, sep) ==
    IF \A i \in 1..Len(x) : x[i] # sep THEN <<x>>
    ELSE LET k == CHOOSE i \in 1..Len(x) : x[i] = sep /\ \A j \in 1..(i-1) : x[j] # sep
         IN  <<SubSeq(x, 1, k-1)>> \o split(SubSeq(x, k+1, Len(x)), sep)

\* sep.join(parts)
RECURSIVE join(_, _)
join(sep, parts) ==
    IF parts = <<>> THEN <<>>
    ELSE IF Len(parts) = 1 THEN parts[1]
    ELSE parts[1] \o sep \o join(sep, Tail(parts))

\* string literals of the sanitizers
CBCLIENT_SLUG == <<"c", "b", "c", "l", "i", "e", "n", "t">>
COM_EXAMPLE == <<"c", "o", "m", ".", "e", "x", "a", "m", "p", "l", "e">>
SLUG_MAX == 64

(***************************************************************************)
(* slugify_modid                                                           *)
(***************************************************************************)
\* slugify_modid without the final [:64]
slugify_modid_untruncated(x) ==
    LET s1 == sub_delete(replace(lower(x), " ", "_"), SlugChars)
        s2 == strip(sub_runs(s1, Seps), Seps)
        s3 == IF s2 = <<>> \/ ~isalpha(s2[1])
              THEN <<"c">> \o lstrip(s2, Digits \cup Seps)
              ELSE s2
    IN  IF s3 = <<>> THEN CBCLIENT_SLUG ELSE s3

slugify_modid(x) ==
    LET s1 == sub_delete(replace(lower(x), " ", "_"), SlugChars)
        s2 == strip(sub_runs(s1, Seps), Seps)
        s3 == IF s2 = <<>> \/ ~isalpha(s2[1])
              THEN <<"c">> \o lstrip(s2, Digits \cup Seps)
              ELSE s2
    IN  slice_to(IF s3 = <<>> THEN CBCLIENT_SLUG ELSE s3, SLUG_MAX)

(***************************************************************************)
(* safe_pkg                                                                *)
(***************************************************************************)
\* safe_pkg that joins the segments as they are, without the 'p' prefix
safe_pkg_unprefixed(x) ==
    LET s1 == sub_delete(replace(replace(lower(x), "-", "_"), " ", "_"), PkgChars)
        s2 == strip(sub_runs(s1, {"."}), {"."})
        parts == SelectSeq(split(s2, "."), LAMBDA p : p # <<>>)
        joined == join(<<".">>, parts)
    IN  IF joined = <<>> THEN COM_EXAMPLE ELSE joined

safe_pkg(x) ==
    LET s1 == sub_delete(replace(replace(lower(x), "-", "_"), " ", "_"), PkgChars)
        s2 == strip(sub_runs(s1, {"."}), {"."})
        parts == SelectSeq(split(s2, "."), LAMBDA p : p # <<>>)
        fixed == [i \in 1..Len(parts) |->
                    IF isalpha(parts[i][1]) \/ parts[i][1] = "_" THEN parts[i] ELSE <<"p">> \o parts[i]]
        joined == join(<<".">>, fixed)
    IN  IF joined = <<>> THEN COM_EXAMPLE ELSE joined

(***************************************************************************)
(* Meta: base_package and normalized                                       *)
(***************************************************************************)
CBCLIENT == <<"C", "B", "C", "l", "i", "e", "n", "t">>
DEFAULT_VERSION == <<"0", ".", "1", ".", "0">>
MIT == <<"M", "I", "T">>
UNKNOWN == <<"U", "n", "k", "n", "o", "w", "n">>
DESCRIPTION_SUFFIX == <<" ", "-", " ", "F", "a", "b", "r", "i", "c", " ", "c", "l", "i", "e", "n", "t", " ", "m", "o", "d">>

\* base_package that joins group and mod_id without sanitizing the result
base_package_raw(m) == m.maven_group \o <<".">> \o m.mod_id

base_package(m) == safe_pkg(m.maven_group \o <<".">> \o m.mod_id)

\* a fallback that is never taken
or_else_keep(x, default) == x

\* x or default
or_else(x, default) == IF x = <<>> THEN default ELSE x

normalized(m) ==
    [out_dir      |-> m.out_dir,
     project_name |-> or_else(strip(sub_delete(m.project_name, ProjChars), Whitespace), CBCLIENT),
     client_name  |-> or_else(strip(m.client_name, Whitespace), CBCLIENT),
     mod_id       |-> slugify_modid(m.mod_id),
     maven_group  |-> safe_pkg(m.maven_group),
     mod_version  |-> or_else(strip(m.mod_version, Whitespace), DEFAULT_VERSION),
     authors      |-> LET kept == SelectSeq(m.authors, LAMBDA a : strip(a, Whitespace) # <<>>)
                      IN  IF kept = <<>> THEN <<UNKNOWN>>
                          ELSE [i \in 1..Len(kept) |-> strip(kept[i], Whitespace)],
     description  |-> strip(or_else(m.description, m.client_name \o DESCRIPTION_SUFFIX), Whitespace),
     license_name |-> or_else(strip(m.license_name, Whitespace), MIT)]

(***************************************************************************)
(* pathlib: a Path is a sequence of components                             *)
(***************************************************************************)
\* Path / str: the components of the string are appended; empty components
\* and "." components are dropped
PathJoin(p, x) == p \o SelectSeq(split(x, "/"), LAMBDA c : c # <<>> /\ c # <<".">>)

\* Path.parent
parent(p) == SubSeq(p, 1, Len(p) - 1)

\* the Path and every ancestor of it
Ancestors(p) == {SubSeq(p, 1, k) : k \in 1..Len(p)}

\* the place a Path names for the operating system: a ".." component steps
\* back to the parent; <<>> is the working directory, which exists
DOTDOT == <<".", ".">>
RECURSIVE realpath(_)
realpath(p) ==
    IF p = <<>> THEN <<>>
    ELSE LET q == realpath(SubSeq(p, 1, Len(p) - 1))
         IN  IF p[Len(p)] # DOTDOT THEN Append(q, p[Len(p)])
             ELSE IF q = <<>> THEN <<>> ELSE SubSeq(q, 1, Len(q) - 1)

is_dir(p) == realpath(p) = <<>> \/ realpath(p) \in dirs
is_file(p) == realpath(p) \in DOMAIN files

\* the lookup of p succeeds: what precedes each ".." is a directory
walk_ok(p) == \A k \in 1..Len(p) : p[k] = DOTDOT => is_dir(SubSeq(p, 1, k - 1))

\* Path.exists()
exists(p) == walk_ok(p) /\ (is_dir(p) \/ is_file(p))

\* any(Path.iterdir()) of a directory
any_iterdir(p) ==
    \E q \in dirs \cup DOMAIN files :
        Len(q) = Len(realpath(p)) + 1 /\ SubSeq(q, 1, Len(realpath(p))) = realpath(p)

(***************************************************************************)
(* The clock and its rendering by {now:%Y%m%d_%H%M%S}                      *)
(***************************************************************************)
DigitChar == <<"0", "1", "2", "3", "4", "5", "6", "7", "8", "9">>
two_digits(n) == <<DigitChar[(n \div 10) + 1], DigitChar[(n % 10) + 1]>>
TODAY == <<"2", "0", "2", "6", "1", "1", "0", "2">>
\* a timestamp with minute resolution, %Y%m%d_%H%M
strftime_minutes(c) ==
    TODAY \o <<"_">> \o two_digits(c \div 3600) \o two_digits((c \div 60) % 60)

strftime(c) ==
    TODAY \o <<"_">> \o two_digits(c \div 3600) \o two_digits((c \div 60) % 60) \o two_digits(c % 60)

(***************************************************************************)
(* generate: target resolution                                             *)
(***************************************************************************)
\* target resolution that takes the candidate whatever is there
resolve_target_primary(m, now) == PathJoin(m.out_dir, m.project_name)

\* lines 99-102 of generate
resolve_target(m, now) ==
    LET primary == PathJoin(m.out_dir, m.project_name)
    IN  IF exists(primary) /\ any_iterdir(primary)
        THEN PathJoin(m.out_dir, m.project_name \o <<"_">> \o strftime(now))
        ELSE primary

(***************************************************************************)
(* generate: the template set, in the order of the write_file calls        *)
(***************************************************************************)
SETTINGS_GRADLE == <<"s", "e", "t", "t", "i", "n", "g", "s", ".", "g", "r", "a", "d", "l", "e">>
GRADLE_PROPERTIES == <<"g", "r", "a", "d", "l", "e", ".", "p", "r", "o", "p", "e", "r", "t", "i", "e", "s">>
BUILD_GRADLE == <<"b", "u", "i", "l", "d", ".", "g", "r", "a", "d", "l", "e">>
GITIGNORE == <<".", "g", "i", "t", "i", "g", "n", "o", "r", "e">>
README_MD == <<"R", "E", "A", "D", "M", "E", ".", "m", "d">>
SRC_MAIN_RESOURCES == <<"s", "r", "c", "/", "m", "a", "i", "n", "/", "r", "e", "s", "o", "u", "r", "c", "e", "s">>
FABRIC_MOD_JSON == <<"f", "a", "b", "r", "i", "c", ".", "m", "o", "d", ".", "j", "s", "o", "n">>
MIXINS_JSON == <<".", "m", "i", "x", "i", "n", "s", ".", "j", "s", "o", "n">>
ASSETS == <<"a", "s", "s", "e", "t", "s", "/">>
LANG == <<"/", "l", "a", "n", "g">>
EN_US_JSON == <<"e", "n", "_", "u", "s", ".", "j", "s", "o", "n">>
ICON_PNG == <<"/", "i", "c", "o", "n", ".", "p", "n", "g">>
SRC_MAIN_JAVA == <<"s", "r", "c", "/", "m", "a", "i", "n", "/", "j", "a", "v", "a", "/">>
CBCLIENT_JAVA == <<"C", "B", "C", "l", "i", "e", "n", "t", ".", "j", "a", "v", "a">>
MODULE_JAVA == <<"m", "o", "d", "u", "l", "e", "/", "M", "o", "d", "u", "l", "e", ".", "j", "a", "v", "a">>
MODULEMANAGER_JAVA == <<"m", "o", "d", "u", "l", "e", "/", "M", "o", "d", "u", "l", "e", "M", "a", "n", "a", "g", "e", "r", ".", "j", "a", "v", "a">>
EXAMPLEMODULE_JAVA == <<"m", "o", "d", "u", "l", "e", "/", "E", "x", "a", "m", "p", "l", "e", "M", "o", "d", "u", "l", "e", ".", "j", "a", "v", "a">>
CLIENTSCREEN_JAVA == <<"g", "u", "i", "/", "C", "l", "i", "e", "n", "t", "S", "c", "r", "e", "e", "n", ".", "j", "a", "v", "a">>
MIXIN_JAVA == <<"m", "i", "x", "i", "n", "/", "M", "i", "n", "e", "c", "r", "a", "f", "t", "C", "l", "i", "e", "n", "t", "M", "i", "x", "i", "n", ".", "j", "a", "v", "a">>
DOT_CBCLIENT == <<".", "C", "B", "C", "l", "i", "e", "n", "t">>
DOT_MIXIN == <<".", "m", "i", "x", "i", "n">>

TemplateSet(target, m) ==
    LET res == PathJoin(target, SRC_MAIN_RESOURCES)
        lang_dir == PathJoin(res, ASSETS \o m.mod_id \o LANG)
        pkg == base_package(m)
        java_root == PathJoin(target, SRC_MAIN_JAVA \o replace(pkg, ".", "/"))
    IN  << [path |-> PathJoin(target, SETTINGS_GRADLE), bytes |-> FALSE,
            content |-> [project_name |-> m.project_name]],
           [path |-> PathJoin(target, GRADLE_PROPERTIES), bytes |-> FALSE,
            content |-> [maven_group |-> m.maven_group, mod_id |-> m.mod_id, mod_version |-> m.mod_version]],
           [path |-> PathJoin(target, BUILD_GRADLE), bytes |-> FALSE, content |-> [template |-> "build.gradle"]],
           [path |-> PathJoin(target, GITIGNORE), bytes |-> FALSE, content |-> [template |-> ".gitignore"]],
           [path |-> PathJoin(target, README_MD), bytes |-> FALSE, content |-> [client_name |-> m.client_name]],
           [path |-> PathJoin(res, FABRIC_MOD_JSON), bytes |-> FALSE,
            content |-> [id |-> m.mod_id, name |-> m.client_name, description |-> m.description,
                         authors |-> m.authors, license |-> m.license_name,
                         icon |-> ASSETS \o m.mod_id \o ICON_PNG,
                         entrypoints_client |-> <<base_package(m) \o DOT_CBCLIENT>>,
                         mixins |-> <<m.mod_id \o MIXINS_JSON>>]],
           [path |-> PathJoin(res, m.mod_id \o MIXINS_JSON), bytes |-> FALSE,
            content |-> [package |-> base_package(m) \o DOT_MIXIN]],
           [path |-> PathJoin(lang_dir, EN_US_JSON), bytes |-> FALSE,
            content |-> [mod_id |-> m.mod_id, client_name |-> m.client_name]],
           [path |-> PathJoin(res, ASSETS \o m.mod_id \o ICON_PNG), bytes |-> TRUE,
            content |-> [template |-> "ICON_B64"]],
           [path |-> PathJoin(java_root, CBCLIENT_JAVA), bytes |-> FALSE,
            content |-> [pkg |-> pkg, mod_id |-> m.mod_id, client_name |-> m.client_name]],
           [path |-> PathJoin(java_root, MODULE_JAVA), bytes |-> FALSE,
            content |-> [pkg |-> pkg, class |-> "Module"]],
           [path |-> PathJoin(java_root, MODULEMANAGER_JAVA), bytes |-> FALSE,
            content |-> [pkg |-> pkg, class |-> "ModuleManager"]],
           [path |-> PathJoin(java_root, EXAMPLEMODULE_JAVA), bytes |-> FALSE,
            content |-> [pkg |-> pkg, class |-> "ExampleModule"]],
           [path |-> PathJoin(java_root, CLIENTSCREEN_JAVA), bytes |-> FALSE,
            content |-> [pkg |-> pkg, class |-> "ClientScreen"]],
           [path |-> PathJoin(java_root, MIXIN_JAVA), bytes |-> FALSE,
            content |-> [pkg |-> pkg, class |-> "MinecraftClientMixin"]] >>

NumEntries == 15

(***************************************************************************)
(* write_file                                                              *)
(***************************************************************************)
\* what write_bytes / write_text leave in the file: bytes as they are, text
\* stripped and ended by one newline
Stored(e) == [content |-> e.content, text |-> ~e.bytes, newline |-> ~e.bytes]

\* a file whose write broke off after open() truncated it
Truncated == [content |-> [template |-> "truncated"], text |-> FALSE, newline |-> FALSE]

\* path.parent.mkdir(parents=True, exist_ok=True) raises iff an ancestor is a regular file
mkdir_ok(p) == \A a \in Ancestors(parent(p)) : ~is_file(a)

\* the directories there are after path.parent.mkdir(parents=True, exist_ok=True)
made_dirs(p) == dirs \cup ({realpath(a) : a \in Ancestors(parent(p))} \ {<<>>})

\* write_bytes / write_text raise when the path is a directory
open_ok(p) == ~is_dir(p)

(***************************************************************************)
(* Inputs of the sanitizers                                                *)
(***************************************************************************)
SeqsUpTo(A, n) == UNION {[1..k -> A] : k \in 0..n}

SlugAlphabet == {"a", "A", "1", "_", "-", " ", "!"}
PadLens == {0, SLUG_MAX - 2, SLUG_MAX - 1, SLUG_MAX}
Pad(k) == [i \in 1..k |-> "a"]
\* a free first character, a run of letters up to the length limit, a free tail
SlugInputs ==
    {h \o Pad(k) \o t : h \in SeqsUpTo(SlugAlphabet, 1), k \in PadLens, t \in SeqsUpTo(SlugAlphabet, MaxTail)}

PkgAlphabet == {"a", "A", "1", "_", "-", " ", ".", "!"}
PkgInputs == SeqsUpTo(PkgAlphabet, MaxPkgLen)

NoMeta == [none |-> TRUE]
NoPath == <<>>

\* the sanitizer driver, the normalized() driver and generate at rest
FRest == s = <<>> /\ r = <<>> /\ rr = <<>> /\ fpc = "in"
MRest == self = NoMeta /\ norm = NoMeta
GRest ==
    /\ dirs = {} /\ files = <<>> /\ clock = 0 /\ ticks = 0
    /\ pc = "idle" /\ meta = NoMeta /\ root = NoPath /\ idx = 0 /\ entries = <<>>
    /\ lines = <<>> /\ cur = NoMeta /\ written = <<>> /\ hist = <<>>

(***************************************************************************)
(* App._fix_modid applied once and again to the mod_id entry               *)
(***************************************************************************)
InitSlug ==
    /\ s \in SlugInputs
    /\ r = <<>> /\ rr = <<>> /\ fpc = "in"
    /\ MRest /\ GRest

FixModid ==
    /\ fpc = "in"
    /\ r' = slugify_modid(s)
    /\ fpc' = "once"
    /\ UNCHANGED <<s, rr, mvars, gvars>>

FixModidAgain ==
    /\ fpc = "once"
    /\ rr' = slugify_modid(r)
    /\ fpc' = "twice"
    /\ UNCHANGED <<s, r, mvars, gvars>>

NextSlug == FixModid \/ FixModidAgain

SpecSlug == InitSlug /\ [][NextSlug]_vars

(***************************************************************************)
(* safe_pkg applied to an input                                            *)
(***************************************************************************)
InitPkg ==
    /\ s \in PkgInputs
    /\ r = <<>> /\ rr = <<>> /\ fpc = "in"
    /\ MRest /\ GRest

SafePkg ==
    /\ fpc = "in"
    /\ r' = safe_pkg(s)
    /\ fpc' = "once"
    /\ UNCHANGED <<s, rr, mvars, gvars>>

NextPkg == SafePkg

SpecPkg == InitPkg /\ [][NextPkg]_vars

(***************************************************************************)
(* Claims about the sanitizers                                             *)
(***************************************************************************)

\* C1: slugify_modid is idempotent: applying it to its own result returns
\* that result, also for inputs whose sanitized form is cut at 64 characters.
C1_SlugIdempotent == fpc = "twice" => rr = r

\* the form a mod_id must have: ^[a-z][a-z0-9_-]{0,63}$ with no two adjacent separators
SlugFormat(x) ==
    /\ Len(x) >= 1 /\ Len(x) <= 64
    /\ x[1] \in LowerLetters
    /\ \A i \in 1..Len(x) : x[i] \in LowerLetters \cup Digits \cup {"_", "-"}
    /\ \A i \in 1..(Len(x) - 1) : ~(x[i] \in {"_", "-"} /\ x[i+1] \in {"_", "-"})

\* C2: for every input the result of slugify_modid is non-empty, at most 64
\* characters, starts with a letter a-z, has only characters of [a-z0-9_-]
\* and no two adjacent separators.
C2_SlugFormat == fpc \in {"once", "twice"} => SlugFormat(r)

\* C2 witness: an input longer than 64 characters whose result was cut to 64
C2_Witness == fpc = "once" /\ Len(s) > 64 /\ Len(r) = 64 /\ s[1] \notin LowerLetters

\* the form a package name must have
PkgFormat(x) ==
    /\ Len(x) >= 1
    /\ x[1] # "." /\ x[Len(x)] # "."
    /\ \A i \in 1..(Len(x) - 1) : ~(x[i] = "." /\ x[i+1] = ".")
    /\ \A i \in 1..Len(x) : x[i] \in LowerLetters \cup Digits \cup {"_", "."}
    /\ \A i \in 1..Len(x) : (i = 1 \/ x[i-1] = ".") => x[i] \in LowerLetters \cup {"_"}

\* no character of x can become part of a segment
NoSegmentSurvives(x) ==
    \A i \in 1..Len(x) : x[i] \notin LowerLetters \cup UpperLetters \cup Digits \cup {"_", "-", " "}

\* C3: the result of safe_pkg is a non-empty dot-separated list of non-empty
\* segments over [a-z0-9_], each starting with a letter or underscore, and it
\* is exactly com.example when no segment survives.
C3_PkgFormat ==
    fpc = "once" => /\ PkgFormat(r)
                    /\ NoSegmentSurvives(s) => r = COM_EXAMPLE

\* C3 witness: a digit-led segment was prefixed and dots were collapsed
C3_Witness == fpc = "once" /\ s = <<"1", ".", ".", "A">> /\ r = <<"p", "1", ".", "a">>

(***************************************************************************)
(* Meta.normalized applied to a raw Meta                                   *)
(***************************************************************************)
OutDir == << <<"o", "u", "t">> >>

ProjNames == {<<>>, <<" ">>, <<"/", "\t">>, <<" ", "p", "/", " ">>, <<"P", ".", "1">>}
FieldTexts == {<<>>, <<" ">>, <<" ", "1", "\t">>}
Texts == SeqsUpTo({" ", "x"}, MaxText)
AuthorNames == {<<>>, <<" ", "x">>, <<"y", " ">>}
ModIds == {<<>>, <<"A", "-", "1">>, <<"1", " ", "b">>}
Groups == {<<>>, <<"C", "o", "m", "-", "x", ".", ".", "1">>, <<"!", ".">>}

RawMetas ==
    [out_dir : {OutDir}, project_name : ProjNames, client_name : Texts, mod_id : ModIds,
     maven_group : Groups, mod_version : FieldTexts, authors : SeqsUpTo(AuthorNames, MaxAuthors),
     description : Texts, license_name : FieldTexts]

InitMeta ==
    /\ self \in RawMetas
    /\ norm = NoMeta
    /\ FRest /\ GRest

Normalize ==
    /\ norm = NoMeta
    /\ norm' = normalized(self)
    /\ UNCHANGED <<fvars, self, gvars>>

NextMeta == Normalize

SpecMeta == InitMeta /\ [][NextMeta]_vars

Blank(x) == \A i \in 1..Len(x) : x[i] \in Whitespace
Trimmed(x) == x # <<>> /\ x[1] \notin Whitespace /\ x[Len(x)] \notin Whitespace
\* y is x without its leading and trailing whitespace
TrimOf(y, x) ==
    /\ Trimmed(y)
    /\ \E j \in 0..Len(x) :
          /\ j + Len(y) <= Len(x)
          /\ SubSeq(x, j + 1, j + Len(y)) = y
          /\ Blank(SubSeq(x, 1, j)) /\ Blank(SubSeq(x, j + Len(y) + 1, Len(x)))

\* C4: the normalized description is never blank, and for a blank raw
\* description it is the normalized client_name followed by ' - Fabric client mod'.
C4_DescriptionDefault ==
    norm # NoMeta =>
        /\ ~Blank(norm.description)
        /\ Blank(self.description) => norm.description = norm.client_name \o DESCRIPTION_SUFFIX

\* C5: normalized() returns for every raw Meta a record whose project_name,
\* client_name, mod_version and license_name are non-empty, equal to the
\* defaults when the input is empty after stripping, and whose authors are
\* the trimmed non-blank input authors in input order, or ('Unknown',).
C5_NormalizedFallbacks ==
    norm # NoMeta =>
        /\ norm.project_name # <<>> /\ norm.client_name # <<>>
        /\ norm.mod_version # <<>> /\ norm.license_name # <<>>
        /\ (\A i \in 1..Len(self.project_name) :
                self.project_name[i] \notin ProjChars \/ self.project_name[i] = " ")
              => norm.project_name = <<"C", "B", "C", "l", "i", "e", "n", "t">>
        /\ Blank(self.client_name) => norm.client_name = <<"C", "B", "C", "l", "i", "e", "n", "t">>
        /\ Blank(self.mod_version) => norm.mod_version = <<"0", ".", "1", ".", "0">>
        /\ Blank(self.license_name) => norm.license_name = <<"M", "I", "T">>
        /\ norm.authors # <<>>
        /\ \A i \in 1..Len(norm.authors) : Trimmed(norm.authors[i])
        /\ LET nonblank == SelectSeq(self.authors, LAMBDA a : ~Blank(a))
           IN  IF nonblank = <<>>
               THEN norm.authors = << <<"U", "n", "k", "n", "o", "w", "n">> >>
               ELSE /\ Len(norm.authors) = Len(nonblank)
                    /\ \A i \in 1..Len(nonblank) : TrimOf(norm.authors[i], nonblank[i])

\* C5 witness: every string field blank and every author blank
C5_Witness ==
    /\ norm # NoMeta
    /\ Blank(self.project_name) /\ Blank(self.client_name) /\ Blank(self.mod_version)
    /\ Blank(self.license_name) /\ self.authors = <<<<>>, <<>>>>
    /\ norm.authors = <<UNKNOWN>> /\ norm.project_name = CBCLIENT

(***************************************************************************)
(* generate, one write_file call per step, over a file system              *)
(***************************************************************************)
StartClock == 58

MetaOf(project, client, modid, group, desc) ==
    [out_dir |-> OutDir, project_name |-> project, client_name |-> client, mod_id |-> modid,
     maven_group |-> group, mod_version |-> <<>>, authors |-> <<<<"x">>, <<>>>>,
     description |-> desc, license_name |-> <<" ">>]

GenMetas ==
    { MetaOf(<<"p">>, <<"x">>, <<"A", "-", "1">>, <<"C", "o", "m", "-", "x", ".", ".", "1">>, <<"d">>),
      MetaOf(<<" ", ".">>, <<" ">>, <<"-">>, <<"a", ".", "B", "-", "c">>, <<>>),
      MetaOf(<<".", "/", ".">>, <<>>, <<"1", " ", "b">>, <<"!", ".">>, <<" ">>) }

OldFile == [content |-> [template |-> "old"], text |-> TRUE, newline |-> TRUE]
Primary0 == PathJoin(OutDir, <<"p">>)
Stamped0 == PathJoin(OutDir, <<"p", "_">> \o strftime(StartClock))

\* the output directory before the first run: absent, empty, or with the candidate out/p absent,
\* empty, non-empty or a regular file, and the stamped directory absent or
\* left over from a run that broke off
InitFilesystems ==
    { [dirs |-> {}, files |-> <<>>],
      [dirs |-> {OutDir}, files |-> <<>>],
      [dirs |-> {OutDir, Primary0}, files |-> <<>>],
      [dirs |-> {OutDir, Primary0, PathJoin(Primary0, <<"s", "r", "c">>)}, files |-> <<>>],
      [dirs |-> {OutDir, Primary0, Stamped0},
       files |-> (PathJoin(Primary0, SETTINGS_GRADLE) :> OldFile)
                    @@ (PathJoin(Stamped0, SETTINGS_GRADLE) :> OldFile)
                    @@ (PathJoin(Stamped0, GRADLE_PROPERTIES) :> Truncated)],
      [dirs |-> {OutDir}, files |-> (Primary0 :> OldFile)] }

Init ==
    /\ FRest /\ MRest
    /\ \E fs \in InitFilesystems : dirs = fs.dirs /\ files = fs.files
    /\ clock = StartClock /\ ticks = 0
    /\ pc = "idle" /\ meta = NoMeta /\ root = NoPath /\ idx = 0 /\ entries = <<>>
    /\ lines = <<>> /\ cur = NoMeta /\ written = <<>> /\ hist = <<>>

\* what a run finds at its candidate directory out_dir / project_name
CandidateState(m) ==
    LET p == realpath(PathJoin(m.out_dir, m.project_name))
    IN  IF ~walk_ok(PathJoin(m.out_dir, m.project_name)) THEN "absent"
        ELSE IF p \in DOMAIN files THEN "file"
        ELSE IF p # <<>> /\ p \notin dirs THEN "absent"
        ELSE IF \E q \in dirs \cup DOMAIN files : Len(q) > Len(p) /\ SubSeq(q, 1, Len(p)) = p
             THEN "nonempty" ELSE "empty"

\* what a run observes when it starts
Observed(m) == [raw |-> m, now |-> clock, candidate |-> CandidateState(normalized(m)), files0 |-> files]

\* the record of a finished run
Finished(c, status, failed_at, target, returned, out, paths) ==
    [raw |-> c.raw, now |-> c.now, candidate |-> c.candidate, status |-> status,
     failed_at |-> failed_at, root |-> target, returned |-> returned, lines |-> out, written |-> paths]

\* generate(m) up to log("Generating: ..."): normalize, resolve the target
Generate(m) ==
    /\ pc = "idle" /\ Len(hist) < MaxRuns
    /\ LET n == normalized(m)
       IN  /\ ~is_file(PathJoin(n.out_dir, n.project_name))
           /\ meta' = n
           /\ root' = resolve_target(n, clock)
    /\ entries' = TemplateSet(root', meta')
    /\ cur' = Observed(m)
    /\ lines' = <<[msg |-> "Generating: ", arg |-> root']>>
    /\ written' = <<>>
    /\ idx' = 1
    /\ pc' = "writing"
    /\ UNCHANGED <<fvars, mvars, dirs, files, clock, ticks, hist>>

\* generate(m) when the candidate is a regular file: root.iterdir() raises
GenerateNotADirectory(m) ==
    /\ pc = "idle" /\ Len(hist) < MaxRuns
    /\ LET n == normalized(m)
       IN  is_file(PathJoin(n.out_dir, n.project_name))
    /\ hist' = Append(hist, Finished(Observed(m), "error", 0, NoPath, NoPath, <<>>, <<>>))
    /\ pc' = "raised"
    /\ UNCHANGED <<fvars, mvars, dirs, files, clock, ticks, meta, root, idx, entries, lines, cur,
                   written>>

Entry == entries[idx]

\* a write_file that leaves an existing file as it is
WriteFile_keep ==
    /\ pc = "writing" /\ idx <= NumEntries
    /\ mkdir_ok(Entry.path) /\ open_ok(Entry.path)
    /\ dirs' = made_dirs(Entry.path)
    /\ files' = [p \in DOMAIN files \cup {realpath(Entry.path)} |->
                    IF p \in DOMAIN files THEN files[p] ELSE Stored(Entry)]
    /\ written' = Append(written, Entry.path)
    /\ idx' = idx + 1
    /\ UNCHANGED <<fvars, mvars, clock, ticks, pc, meta, root, entries, lines, cur, hist>>

\* the next write_file call succeeds
WriteFile ==
    /\ pc = "writing" /\ idx <= NumEntries
    /\ mkdir_ok(Entry.path) /\ open_ok(Entry.path)
    /\ dirs' = made_dirs(Entry.path)
    /\ files' = [p \in DOMAIN files \cup {realpath(Entry.path)} |->
                    IF p = realpath(Entry.path) THEN Stored(Entry) ELSE files[p]]
    /\ written' = Append(written, Entry.path)
    /\ idx' = idx + 1
    /\ UNCHANGED <<fvars, mvars, clock, ticks, pc, meta, root, entries, lines, cur, hist>>

\* an exception that is swallowed: generate goes on with the next entry
Raise_continue ==
    /\ idx' = idx + 1
    /\ UNCHANGED <<fvars, mvars, clock, ticks, pc, meta, root, entries, lines, cur, written, hist>>

\* an exception raised in write_file leaves generate and ends the session
\* (main lets it end the process)
Raise ==
    /\ hist' = Append(hist, Finished(cur, "error", idx, root, NoPath, lines, written))
    /\ pc' = "raised"
    /\ UNCHANGED <<fvars, mvars, clock, ticks, meta, root, idx, entries, lines, cur, written>>

\* mkdir raises
MkdirRaises ==
    /\ pc = "writing" /\ idx <= NumEntries
    /\ UNCHANGED <<dirs, files>>
    /\ Raise

\* opening the file raises after the parent directories were created
OpenRaises ==
    /\ pc = "writing" /\ idx <= NumEntries
    /\ mkdir_ok(Entry.path)
    /\ dirs' = made_dirs(Entry.path)
    /\ UNCHANGED files
    /\ Raise

\* writing raises after the file was opened and truncated
WriteRaises ==
    /\ pc = "writing" /\ idx <= NumEntries
    /\ mkdir_ok(Entry.path) /\ open_ok(Entry.path)
    /\ dirs' = made_dirs(Entry.path)
    /\ files' = [p \in DOMAIN files \cup {realpath(Entry.path)} |->
                    IF p = realpath(Entry.path) THEN Truncated ELSE files[p]]
    /\ Raise

\* log("Done.") and return root
Done ==
    /\ pc = "writing" /\ idx = NumEntries + 1
    /\ lines' = Append(lines, [msg |-> "Done.", arg |-> NoPath])
    /\ hist' = Append(hist, Finished(cur, "ok", 0, root, root, lines', written))
    /\ pc' = "idle"
    /\ UNCHANGED <<fvars, mvars, dirs, files, clock, ticks, meta, root, idx, entries, cur, written>>

\* a second passes; generate reads the clock only when it starts, so time
\* that passes during a run is time that passes right after it
Tick ==
    /\ pc = "idle"
    /\ ticks < MaxTicks
    /\ clock' = clock + 1
    /\ ticks' = ticks + 1
    /\ UNCHANGED <<fvars, mvars, dirs, files, pc, meta, root, idx, entries, lines, cur, written, hist>>

Next ==
    \/ \E m \in GenMetas : Generate(m)
    \/ \E m \in GenMetas : GenerateNotADirectory(m)
    \/ WriteFile
    \/ MkdirRaises
    \/ OpenRaises
    \/ WriteRaises
    \/ Done
    \/ Tick

Spec == Init /\ [][Next]_vars

(***************************************************************************)
(* Claims about generate                                                   *)
(***************************************************************************)
Last == hist[Len(hist)]

\* every file of the template set of run h is on disk under the directory it returned
Complete(h) ==
    LET es == TemplateSet(h.returned, normalized(h.raw))
    IN  \A i \in 1..Len(es) :
            realpath(es[i].path) \in DOMAIN files /\ files[realpath(es[i].path)] = Stored(es[i])

\* the last two runs both returned, had the same metadata, and the first of
\* them found its candidate directory non-empty
TwoCollidingRuns ==
    /\ pc = "idle" /\ Len(hist) >= 2
    /\ hist[Len(hist) - 1].status = "ok" /\ Last.status = "ok"
    /\ hist[Len(hist) - 1].raw = Last.raw
    /\ hist[Len(hist) - 1].candidate = "nonempty"

\* C6 as stated: two successive runs with identical metadata, started on a
\* non-empty candidate directory, return two distinct directories that both
\* hold the complete file set, whatever time passed between them.
C6_TwoRunsDistinct ==
    TwoCollidingRuns =>
        /\ hist[Len(hist) - 1].returned # Last.returned
        /\ Complete(hist[Len(hist) - 1]) /\ Complete(Last)

\* C6 amended: the two runs return distinct directories when they read
\* different clock seconds and the same stamped directory when they read
\* the same second; each returned directory holds the complete file set.
C6_TwoRunsDistinctSeconds ==
    TwoCollidingRuns =>
        /\ hist[Len(hist) - 1].now # Last.now => hist[Len(hist) - 1].returned # Last.returned
        /\ hist[Len(hist) - 1].now = Last.now => hist[Len(hist) - 1].returned = Last.returned
        /\ Complete(hist[Len(hist) - 1]) /\ Complete(Last)

\* C6 witness: two such runs a second apart, with two distinct directories
C6_Witness ==
    /\ TwoCollidingRuns
    /\ hist[Len(hist) - 1].now # Last.now
    /\ hist[Len(hist) - 1].returned # Last.returned

\* C7: the target is the candidate out_dir/project_name when that is absent
\* or empty, and out_dir/(project_name + '_' + timestamp), which differs from
\* the candidate, when it is non-empty; the decision changes nothing on disk.
C7_TargetResolution ==
    [][(pc = "idle" /\ pc' = "writing") =>
          LET candidate == PathJoin(meta'.out_dir, meta'.project_name)
              stamped == meta'.out_dir \o <<meta'.project_name \o <<"_">> \o strftime(clock)>>
          IN  /\ dirs' = dirs /\ files' = files
              /\ CandidateState(meta') \in {"absent", "empty"} => root' = candidate
              /\ CandidateState(meta') = "nonempty" => root' = stamped /\ root' # candidate]_vars

\* C7 witness: a run that found its candidate non-empty and took the stamped directory
C7_Witness ==
    /\ pc = "writing" /\ idx = 1
    /\ cur.candidate = "nonempty"
    /\ root # PathJoin(meta.out_dir, meta.project_name)
    /\ Len(root[Len(root)]) = Len(meta.project_name) + 16

\* C8: when a write_file call raises, the run ends there: nothing is
\* returned, 'Done.' is not logged, the entries before it stay on disk as
\* written and the entries after it are not touched.
C8_FailureAborts ==
    [][(pc = "writing" /\ idx <= NumEntries /\ written' = written) =>
          /\ pc' = "raised"
          /\ Len(hist') = Len(hist) + 1
          /\ hist'[Len(hist')].status = "error"
          /\ hist'[Len(hist')].returned = NoPath
          /\ \A k \in 1..Len(hist'[Len(hist')].lines) : hist'[Len(hist')].lines[k].msg # "Done."
          /\ hist'[Len(hist')].written = [k \in 1..(idx - 1) |-> entries[k].path]
          /\ \A k \in 1..(idx - 1) :
                /\ realpath(entries[k].path) \in DOMAIN files'
                /\ files'[realpath(entries[k].path)] = Stored(entries[k])
          /\ \A k \in (idx + 1)..NumEntries :
                /\ realpath(entries[k].path) \in DOMAIN files' <=> realpath(entries[k].path) \in DOMAIN files
                /\ realpath(entries[k].path) \in DOMAIN files
                      => files'[realpath(entries[k].path)] = files[realpath(entries[k].path)]]_vars

\* C8 witness: a run that failed at a later entry, its earlier files on disk
C8_Witness ==
    /\ pc = "raised" /\ hist # <<>>
    /\ Last.status = "error" /\ Last.failed_at = 7
    /\ Len(Last.written) = 6
    /\ \A k \in 1..6 : realpath(Last.written[k]) \in DOMAIN files
    /\ realpath(entries[8].path) \notin DOMAIN files

C_SRC == <<"s", "r", "c">>
C_MAIN == <<"m", "a", "i", "n">>
C_RESOURCES == <<"r", "e", "s", "o", "u", "r", "c", "e", "s">>
C_JAVA == <<"j", "a", "v", "a">>
C_FABRIC_MOD_JSON == <<"f", "a", "b", "r", "i", "c", ".", "m", "o", "d", ".", "j", "s", "o", "n">>
C_CBCLIENT_JAVA == <<"C", "B", "C", "l", "i", "e", "n", "t", ".", "j", "a", "v", "a">>

\* the namespace derived from a raw Meta
DerivedNamespace(m) == safe_pkg(safe_pkg(m.maven_group) \o <<".">> \o slugify_modid(m.mod_id))

\* the segments of a well-formed namespace
RECURSIVE Segments(_)
Segments(x) ==
    IF \A i \in 1..Len(x) : x[i] # "." THEN <<x>>
    ELSE LET k == CHOOSE i \in 1..Len(x) : x[i] = "." /\ \A j \in 1..(i - 1) : x[j] # "."
         IN  <<SubSeq(x, 1, k - 1)>> \o Segments(SubSeq(x, k + 1, Len(x)))

\* C9: after a run, the client entry point in fabric.mod.json is the derived
\* namespace followed by '.CBClient', the derived namespace is a well-formed
\* package name, and CBClient.java lies in src/main/java/<one directory per
\* segment> and declares that package.
C9_EntryPoint ==
    (pc = "idle" /\ hist # <<>> /\ Last.status = "ok") =>
        LET ns == DerivedNamespace(Last.raw)
            manifest == realpath(Last.returned \o <<C_SRC, C_MAIN, C_RESOURCES, C_FABRIC_MOD_JSON>>)
            source == realpath(Last.returned \o <<C_SRC, C_MAIN, C_JAVA>> \o Segments(ns) \o <<C_CBCLIENT_JAVA>>)
        IN  /\ PkgFormat(ns)
            /\ manifest \in DOMAIN files
            /\ files[manifest].content.entrypoints_client = <<ns \o <<".", "C", "B", "C", "l", "i", "e", "n", "t">>>>
            /\ source \in DOMAIN files
            /\ files[source].content.pkg = ns

\* C9 witness: a run whose mod_id has a character that is illegal in a package name
C9_Witness ==
    /\ pc = "idle" /\ hist # <<>> /\ Last.status = "ok"
    /\ \E i \in 1..Len(meta.mod_id) : meta.mod_id[i] = "-"
    /\ \A i \in 1..Len(DerivedNamespace(Last.raw)) : DerivedNamespace(Last.raw)[i] # "-"

\* C10: the 15 paths of a run are pairwise distinct; the run writes them in
\* order, each once, each after its parent directories exist, and each file
\* holds what the run wrote, also where a file was there before.
C10_EachEntryOnce ==
    (pc = "writing" \/ (pc = "idle" /\ hist # <<>> /\ Last.status = "ok")) =>
        /\ Len(entries) = 15
        /\ \A i, j \in 1..Len(entries) : i # j => realpath(entries[i].path) # realpath(entries[j].path)
        /\ written = [k \in 1..(idx - 1) |-> entries[k].path]
        /\ pc = "idle" => Len(written) = 15
        /\ \A k \in 1..Len(written) :
              /\ \A a \in 1..(Len(written[k]) - 1) : is_dir(SubSeq(written[k], 1, a))
              /\ realpath(written[k]) \in DOMAIN files
              /\ files[realpath(written[k])] = Stored(entries[k])

\* C10 witness: a finished run that replaced a file that was there before
\* and created its files in a directory that existed already
C10_Witness ==
    /\ pc = "idle" /\ hist # <<>> /\ Last.status = "ok"
    /\ realpath(written[1]) \in DOMAIN cur.files0
    /\ cur.files0[realpath(written[1])] = OldFile
    /\ files[realpath(written[1])] # OldFile

\* p lies below the directory d, n levels down or deeper
Below(p, d, n) ==
    /\ Len(realpath(p)) >= Len(realpath(d)) + n
    /\ SubSeq(realpath(p), 1, Len(realpath(d))) = realpath(d)

\* C11: for every raw project folder name the target is a direct child
\* directory of out_dir, and every file the run writes lies inside that
\* child, never in out_dir itself, its parent or elsewhere.
C11_TargetInsideOutDir ==
    (root # NoPath /\ meta # NoMeta) =>
        /\ Below(root, meta.out_dir, 1)
        /\ Len(realpath(root)) = Len(realpath(meta.out_dir)) + 1
        /\ \A k \in 1..Len(written) : Below(written[k], meta.out_dir, 2)

====
